---- MODULE Spec2Model ----
(***************************************************************************)
(* Dancing Links exact-cover solver (nwtnni/dancing-links).                *)
(*                                                                         *)
(* The arena (src/src/matrix.rs) is modelled as the two vectors `headers`  *)
(* and `nodes` with 32-bit indices; the builder and the recursive search   *)
(* (src/src/solve.rs) are translated statement by statement.  The          *)
(* recursion of solve_inner is an explicit stack of frames, one action     *)
(* per loop step and per cover/uncover call.                               *)
(***************************************************************************)
EXTENDS Integers, Sequences, FiniteSets, TLC

VARIABLES
    rows,       \* the caller's rows: a sequence of sequences of identifiers
    m,          \* Matrix: [headers, nodes]
    pc,         \* position of the running call
    op,         \* which public operation is running / ran last
    stack,      \* frames of solve_inner: [col, i, j]
    solution,   \* Vec<matrix::Index> threaded through solve_inner
    buffer,     \* Vec<usize> of Solver::solve
    delivered,  \* slices handed to the caller's callback during this call
    count,      \* counter of Solver::solve_count
    ret,        \* value returned by solve_inner / solve
    brk,        \* the break taken in this call, if any
    pre,        \* the matrix when the running call started
    prev,       \* record of the call before the current one
    tainted,    \* an earlier call on this Solver was ended by a break
    covered     \* the columns covered and not yet uncovered, oldest first

vars == <<rows, m, pc, op, stack, solution, buffer, delivered, count, ret,
          brk, pre, prev, tainted, covered>>

----------------------------------------------------------------------------
(* Bounds of the model *)

\* maximum number of rows handed to Solver::new
MaxRows == 3
\* maximum number of identifiers yielded by all rows together
MaxNodes == 4

\* the sparse 16-bit identifiers the rows draw from
Ids == {2, 5, 8}

\* values a callback may break with
BreakVals == {"x", "y"}

----------------------------------------------------------------------------
(* matrix.rs: indices *)

\* A u32 is represented by the 32-bit two's-complement integer with the same
\* bit pattern (the model checker's integers are 32 bits wide): u32::MAX is -1,
\* and the values from 2^31 up are the negative ones.
I32Max == 2147483647

\* Index::GLOBAL = Self(0), Index::DANGLING = Self(u32::MAX)
GLOBAL == 0
DANGLING == -1

\* the order of u32 on the representatives
ULess(a, b) == IF (a >= 0) = (b >= 0) THEN a < b ELSE a >= 0

\* u32::wrapping_add_signed: addition modulo 2^32 on the representatives
WrappingAddSigned(a, delta) ==
    IF delta > 0 /\ a > I32Max - delta
    THEN (a - I32Max - 1) + (delta - I32Max - 1)
    ELSE IF delta < 0 /\ a < (-I32Max - 1) - delta
    THEN (a + I32Max + 1) + (delta + I32Max + 1)
    ELSE a + delta

HeaderIndex(col) == 1 + col

ColToIndex(col) == col

IndexPrev(i) == i - 1

NewNode(row, col, u, d, l, r) ==
    [row |-> row, col |-> col, u |-> u, d |-> d, l |-> l, r |-> r]

NodeDangling(row, col) ==
    NewNode(row, col, DANGLING, DANGLING, DANGLING, DANGLING)

----------------------------------------------------------------------------
(* matrix.rs: Matrix *)

RECURSIVE NewHeaders(_, _)
NewHeaders(column_count, i) ==
    IF i >= column_count THEN <<>>
    ELSE <<[size |-> 0,
            node |-> NewNode(0, i + 1, DANGLING, DANGLING,
                             IF i - 1 >= 0 THEN HeaderIndex(i - 1) ELSE GLOBAL,
                             IF i + 1 = column_count THEN GLOBAL
                                                     ELSE HeaderIndex(i + 1))]>>
         \o NewHeaders(column_count, i + 1)

MatrixNew(column_count) ==
    [headers |->
        <<[size |-> 0,
           node |-> NewNode(0, 0, DANGLING, DANGLING,
                            HeaderIndex(column_count), HeaderIndex(0))]>>
        \o NewHeaders(column_count, 0),
     nodes |-> <<>>]

MatrixLen(mx) == Len(mx.headers) + Len(mx.nodes)

\* whether indexing the matrix with i stays inside its two vectors
InArena(mx, i) == ULess(i, MatrixLen(mx))

\* F applied to the value of x: x is evaluated once, however often F uses it
Bind(x, F(_)) == CHOOSE r \in {F(v) : v \in {x}} : TRUE

Lookup(mx, i) ==
    IF ULess(i, Len(mx.headers)) THEN mx.headers[i + 1].node
    ELSE mx.nodes[i - Len(mx.headers) + 1]

SetField(mx, i, f, v) ==
    IF ULess(i, Len(mx.headers))
    THEN [mx EXCEPT !.headers[i + 1].node[f] = v]
    ELSE [mx EXCEPT !.nodes[i - Len(mx.headers) + 1][f] = v]

Size(mx, col) == mx.headers[col + 1].size

UpdateSize(mx, col, delta) ==
    [mx EXCEPT !.headers[col + 1].size = WrappingAddSigned(@, delta)]

Push(mx, node) == [mx EXCEPT !.nodes = Append(@, node)]

PushIndex(mx) == Len(mx.headers) + Len(mx.nodes)

ColMapNew(mx) == [c \in 0..(Len(mx.headers) - 1) |-> ColToIndex(c)]

IndexToColumn(mx, i) == Lookup(mx, i).col

\* impl_attach!: fa is the field $a (u or l), fb the field $b (d or r)
Attach(mx, fa, fb, a, b) == SetField(SetField(mx, a, fb, b), b, fa, a)

Reattach(mx, fa, fb, i) ==
    LET a == Lookup(mx, i)[fa]
        b == Lookup(mx, i)[fb]
    IN SetField(SetField(mx, a, fb, i), b, fa, i)

\* mutant: the detached node's own pointers are cleared
DetachClearing(mx, fa, fb, i) ==
    LET a == Lookup(mx, i)[fa]
        b == Lookup(mx, i)[fb]
    IN SetField(SetField(SetField(SetField(mx, a, fb, b), b, fa, a),
                         i, fa, DANGLING), i, fb, DANGLING)

Detach(mx, fa, fb, i) ==
    LET a == Lookup(mx, i)[fa]
        b == Lookup(mx, i)[fb]
    IN SetField(SetField(mx, a, fb, b), b, fa, a)

AttachVertical(mx, a, b) == Attach(mx, "u", "d", a, b)
AttachHorizontal(mx, a, b) == Attach(mx, "l", "r", a, b)
ReattachVertical(mx, i) == Reattach(mx, "u", "d", i)
ReattachHorizontal(mx, i) == Reattach(mx, "l", "r", i)
\* mutant: the down-neighbour's u is not rewritten
DetachVerticalOneSided(mx, i) ==
    SetField(mx, Lookup(mx, i).u, "d", Lookup(mx, i).d)

DetachVertical(mx, i) == Detach(mx, "u", "d", i)
DetachHorizontal(mx, i) == Detach(mx, "l", "r", i)

\* mutant: the closure advances twice per call
WalkStepTwice(mx, f, next) ==
    LET n == Lookup(mx, next)[f]
    IN IF InArena(mx, n) THEN Lookup(mx, n)[f] ELSE n

\* one call of the closure of Matrix::walk: the walker's new `next`
WalkStep(mx, f, next) == Lookup(mx, next)[f]

\* the nodes a walk from start yields, in order, as long as it stays in the
\* arena and ends within MatrixLen steps; DANGLING marks a walk that does not
RECURSIVE WalkFrom(_, _, _, _, _)
WalkFrom(mx, f, start, next, fuel) ==
    IF fuel = 0 THEN <<DANGLING>>
    ELSE LET n == WalkStep(mx, f, next)
         IN IF n = start THEN <<>>
            ELSE IF ~InArena(mx, n) THEN <<DANGLING>>
            ELSE <<n>> \o WalkFrom(mx, f, start, n, fuel - 1)

WalkSeq(mx, f, start) == WalkFrom(mx, f, start, start, MatrixLen(mx))

----------------------------------------------------------------------------
(* solve.rs: Solver::new *)

None == [some |-> FALSE]
Some(v) == [some |-> TRUE, val |-> v]

Range(seq) == {seq[k] : k \in DOMAIN seq}

AllIds(rs) == UNION {Range(rs[k]) : k \in DOMAIN rs}

SetMin(S) == CHOOSE x \in S : \A y \in S : x <= y

\* the ascending iteration of a BTreeSet
RECURSIVE SortedSeq(_)
SortedSeq(S) ==
    IF S = {} THEN <<>> ELSE <<SetMin(S)>> \o SortedSeq(S \ {SetMin(S)})

DenseToSparse(rs) == SortedSeq(AllIds(rs))

\* mutant: the map stores the position enumerate() counts, from 0
SparseToDenseZeroBased(rs) ==
    LET d2s == DenseToSparse(rs)
    IN [sparse \in AllIds(rs) |->
            (CHOOSE k \in DOMAIN d2s : d2s[k] = sparse) - 1]

\* enumerate() counts from 0 and the map stores dense + 1
SparseToDense(rs) ==
    LET d2s == DenseToSparse(rs)
    IN [sparse \in AllIds(rs) |->
            ((CHOOSE k \in DOMAIN d2s : d2s[k] = sparse) - 1) + 1]

\* mutant: the size counter of the column is not incremented
BuildIdNoSize(st, row, sparse, s2d) ==
    LET dense == s2d[sparse]
        col   == dense
        index == PushIndex(st.mx)
        m2    == Push(st.mx, NodeDangling(row, col))
        up    == st.prev[col]
        m3    == AttachVertical(m2, up, index)
        m4    == IF st.head.some
                 THEN AttachHorizontal(m3, IndexPrev(index), index)
                 ELSE m3
    IN [mx   |-> m4,
        prev |-> [st.prev EXCEPT ![col] = index],
        head |-> IF st.head.some THEN st.head ELSE Some(index),
        tail |-> Some(index)]

\* body of the inner loop `for sparse in r.iter()`
BuildId(st, row, sparse, s2d) ==
    LET dense == s2d[sparse]
        col   == dense
        m1    == UpdateSize(st.mx, col, 1)
        index == PushIndex(m1)
        m2    == Push(m1, NodeDangling(row, col))
        up    == st.prev[col]
        m3    == AttachVertical(m2, up, index)
        m4    == IF st.head.some
                 THEN AttachHorizontal(m3, IndexPrev(index), index)
                 ELSE m3
    IN [mx   |-> m4,
        prev |-> [st.prev EXCEPT ![col] = index],
        head |-> IF st.head.some THEN st.head ELSE Some(index),
        tail |-> Some(index)]

RECURSIVE BuildIds(_, _, _, _, _)
BuildIds(st, row, ids, k, s2d) ==
    IF k > Len(ids) THEN st
    ELSE BuildIds(BuildId(st, row, ids[k], s2d), row, ids, k + 1, s2d)

\* body of the outer loop `for (row, r) in rows.iter().enumerate()`
BuildRow(st, row, ids, s2d) ==
    LET s1 == BuildIds([st EXCEPT !.head = None, !.tail = None],
                       row, ids, 1, s2d)
    IN IF s1.head.some /\ s1.tail.some
       THEN [s1 EXCEPT !.mx = AttachHorizontal(s1.mx, s1.tail.val, s1.head.val)]
       ELSE s1

\* mutant: the ordinals are counted over the rows that yield identifiers
RECURSIVE BuildRowsSkipEmpty(_, _, _, _)
BuildRowsSkipEmpty(st, rs, k, s2d) ==
    IF k > Len(rs) THEN st
    ELSE BuildRowsSkipEmpty(
            BuildRow(st, Cardinality({a \in 1..(k - 1) : rs[a] # <<>>}),
                     rs[k], s2d),
            rs, k + 1, s2d)

RECURSIVE BuildRows(_, _, _, _)
BuildRows(st, rs, k, s2d) ==
    IF k > Len(rs) THEN st
    ELSE BuildRows(BuildRow(st, k - 1, rs[k], s2d), rs, k + 1, s2d)

\* mutant: the column cycles are left open at the bottom
CloseColumnsOpen(mx, cmap, c) == mx

\* `for (col, index) in prev.iter()`: complete column cycles
RECURSIVE CloseColumns(_, _, _)
CloseColumns(mx, cmap, c) ==
    IF c >= Len(mx.headers) THEN mx
    ELSE CloseColumns(AttachVertical(mx, cmap[c], ColToIndex(c)), cmap, c + 1)

SolverNew(rs) ==
    LET d2s == DenseToSparse(rs)
        s2d == SparseToDense(rs)
        m0  == MatrixNew(Len(d2s))
        st  == BuildRows([mx |-> m0, prev |-> ColMapNew(m0),
                          head |-> None, tail |-> None], rs, 1, s2d)
    IN CloseColumns(st.mx, st.prev, 0)

----------------------------------------------------------------------------
(* solve.rs: cover / uncover *)

\* mutant: the size counter is not decremented
RECURSIVE CoverRowNoSize(_, _, _)
CoverRowNoSize(mx, i, next) ==
    LET j == WalkStep(mx, "r", next)
    IN IF j = i THEN mx
       ELSE CoverRowNoSize(DetachVertical(mx, j), i, j)

\* inner loop of cover: `for j in walk_right(i)`; `next` is the walker's state
RECURSIVE CoverRow(_, _, _)
CoverRow(mx, i, next) ==
    Bind(WalkStep(mx, "r", next), LAMBDA j :
        IF j = i THEN mx
        ELSE Bind(UpdateSize(DetachVertical(mx, j), IndexToColumn(mx, j), -1),
                  LAMBDA n : CoverRow(n, i, j)))

\* outer loop of cover: `for i in walk_down(col)`
RECURSIVE CoverDown(_, _, _)
CoverDown(mx, col, next) ==
    Bind(WalkStep(mx, "d", next), LAMBDA i :
        IF i = col THEN mx
        ELSE Bind(CoverRow(mx, i, i), LAMBDA n : CoverDown(n, col, i)))

\* mutant: the header stays linked in the header row
CoverKeepsHeader(mx, c) == CoverDown(mx, ColToIndex(c), ColToIndex(c))

\* mutant: only the header is unlinked, the rows of the column stay
CoverHeaderOnly(mx, c) == DetachHorizontal(mx, ColToIndex(c))

Cover(mx, c) ==
    LET col == ColToIndex(c)
    IN Bind(DetachHorizontal(mx, col), LAMBDA n : CoverDown(n, col, col))

\* mutant: the size counter is not incremented
RECURSIVE UncoverRowNoSize(_, _, _)
UncoverRowNoSize(mx, i, next) ==
    LET j == WalkStep(mx, "l", next)
    IN IF j = i THEN mx
       ELSE UncoverRowNoSize(ReattachVertical(mx, j), i, j)

RECURSIVE UncoverRow(_, _, _)
UncoverRow(mx, i, next) ==
    Bind(WalkStep(mx, "l", next), LAMBDA j :
        IF j = i THEN mx
        ELSE Bind(UpdateSize(ReattachVertical(mx, j), IndexToColumn(mx, j), 1),
                  LAMBDA n : UncoverRow(n, i, j)))

RECURSIVE UncoverUp(_, _, _)
UncoverUp(mx, col, next) ==
    Bind(WalkStep(mx, "u", next), LAMBDA i :
        IF i = col THEN mx
        ELSE Bind(UncoverRow(mx, i, i), LAMBDA n : UncoverUp(n, col, i)))

\* mutant: the header is not linked back into the header row
UncoverNoReattach(mx, c) == UncoverUp(mx, ColToIndex(c), ColToIndex(c))

Uncover(mx, c) ==
    LET col == ColToIndex(c)
    IN Bind(UncoverUp(mx, col, col), LAMBDA n : ReattachHorizontal(n, col))

\* The detachments cover performs, in the order in which it performs them,
\* and the reattachments of uncover: the loops of cover and uncover again,
\* recording each call instead of returning the arena.  An entry names the
\* axis and the node of the call.
RECURSIVE CoverRowLog(_, _, _)
CoverRowLog(mx, i, next) ==
    LET j == WalkStep(mx, "r", next)
    IN IF j = i THEN <<>>
       ELSE <<[axis |-> "v", i |-> j]>>
            \o CoverRowLog(UpdateSize(DetachVertical(mx, j),
                                      IndexToColumn(mx, j), -1), i, j)

RECURSIVE CoverDownLog(_, _, _)
CoverDownLog(mx, col, next) ==
    LET i == WalkStep(mx, "d", next)
    IN IF i = col THEN <<>>
       ELSE CoverRowLog(mx, i, i) \o CoverDownLog(CoverRow(mx, i, i), col, i)

CoverLog(mx, c) ==
    LET col == ColToIndex(c)
    IN <<[axis |-> "h", i |-> col]>>
       \o CoverDownLog(DetachHorizontal(mx, col), col, col)

\* The values the size counters have when cover decrements them, in the
\* order of the decrements: the loops of cover again, recording the counter
\* read by each update_size(col, -1).
RECURSIVE CoverRowSizes(_, _, _)
CoverRowSizes(mx, i, next) ==
    LET j == WalkStep(mx, "r", next)
    IN IF j = i THEN <<>>
       ELSE <<Size(mx, IndexToColumn(mx, j))>>
            \o CoverRowSizes(UpdateSize(DetachVertical(mx, j),
                                        IndexToColumn(mx, j), -1), i, j)

RECURSIVE CoverDownSizes(_, _, _)
CoverDownSizes(mx, col, next) ==
    LET i == WalkStep(mx, "d", next)
    IN IF i = col THEN <<>>
       ELSE CoverRowSizes(mx, i, i)
            \o CoverDownSizes(CoverRow(mx, i, i), col, i)

CoverSizes(mx, c) ==
    LET col == ColToIndex(c)
    IN CoverDownSizes(DetachHorizontal(mx, col), col, col)

RECURSIVE UncoverRowLog(_, _, _)
UncoverRowLog(mx, i, next) ==
    LET j == WalkStep(mx, "l", next)
    IN IF j = i THEN <<>>
       ELSE <<[axis |-> "v", i |-> j]>>
            \o UncoverRowLog(UpdateSize(ReattachVertical(mx, j),
                                        IndexToColumn(mx, j), 1), i, j)

RECURSIVE UncoverUpLog(_, _, _)
UncoverUpLog(mx, col, next) ==
    LET i == WalkStep(mx, "u", next)
    IN IF i = col THEN <<>>
       ELSE UncoverRowLog(mx, i, i)
            \o UncoverUpLog(UncoverRow(mx, i, i), col, i)

UncoverLog(mx, c) ==
    LET col == ColToIndex(c)
    IN UncoverUpLog(mx, col, col) \o <<[axis |-> "h", i |-> col]>>

----------------------------------------------------------------------------
(* solve.rs: the search *)

\* walk_right(GLOBAL).map(index_to_column).min_by_key(size): the first of the
\* minima wins.  Indexing the matrix outside its vectors panics.
RECURSIVE MinByKey(_, _, _)
MinByKey(mx, next, best) ==
    Bind(WalkStep(mx, "r", next), LAMBDA n :
        IF n = GLOBAL
        THEN (IF best.some THEN [kind |-> "col", col |-> best.val.col]
                           ELSE [kind |-> "none", col |-> 0])
        ELSE IF ~InArena(mx, n)
        THEN [kind |-> "panic", col |-> 0]
        ELSE LET col == IndexToColumn(mx, n)
                 key == Size(mx, col)
             IN Bind(IF ~best.some \/ ULess(key, best.val.key)
                     THEN Some([col |-> col, key |-> key])
                     ELSE best,
                     LAMBDA b : MinByKey(mx, n, b)))

\* mutant: the last of the minima wins
RECURSIVE MinByKeyLast(_, _, _)
MinByKeyLast(mx, next, best) ==
    LET n == WalkStep(mx, "r", next)
    IN IF n = GLOBAL
       THEN (IF best.some THEN [kind |-> "col", col |-> best.val.col]
                          ELSE [kind |-> "none", col |-> 0])
       ELSE IF ~InArena(mx, n)
       THEN [kind |-> "panic", col |-> 0]
       ELSE LET col == IndexToColumn(mx, n)
                key == Size(mx, col)
            IN MinByKeyLast(mx, n,
                            IF ~best.some \/ ~ULess(best.val.key, key)
                            THEN Some([col |-> col, key |-> key])
                            ELSE best)

SelectColumnLastMin(mx) == MinByKeyLast(mx, GLOBAL, None)

SelectColumn(mx) == MinByKey(mx, GLOBAL, None)

\* solution.iter().map(|index| usize::from(self.matrix[*index].row))
RowsOf(mx, sol) == [k \in DOMAIN sol |-> Lookup(mx, sol[k]).row]

\* mutant: the buffer is extended without having been cleared
BufferKept(buf, mx, sol) == buf \o RowsOf(mx, sol)

\* closure of solve: buffer.clear(); buffer.extend(...)
BufferRebuilt(buf, mx, sol) == <<>> \o RowsOf(mx, sol)

\* a callback may reorder the slice it is handed (the smoke test sorts it)
RECURSIVE SortSlice(_)
SortSlice(sl) ==
    IF sl = <<>> THEN <<>>
    ELSE LET k == CHOOSE a \in DOMAIN sl : \A b \in DOMAIN sl : sl[a] <= sl[b]
         IN <<sl[k]>> \o SortSlice(SubSeq(sl, 1, k - 1) \o SubSeq(sl, k + 1, Len(sl)))

\* what a callback may leave in the slice it was handed: it is `&mut`, so the
\* callback may keep it, reorder it or overwrite its entries
CallbackWrites(sl) == {sl, SortSlice(sl), [k \in DOMAIN sl |-> 0]}

----------------------------------------------------------------------------
(* inputs *)

Injective(seq) == \A a, b \in DOMAIN seq : a # b => seq[a] # seq[b]

\* rows whose iterator yields no identifier twice
RowKinds ==
    {r \in UNION {[1..n -> Ids] : n \in 0..Cardinality(Ids)} : Injective(r)}

RECURSIVE TotalLen(_, _)
TotalLen(rs, k) == IF k > Len(rs) THEN 0 ELSE Len(rs[k]) + TotalLen(rs, k + 1)

Inputs ==
    {rs \in UNION {[1..n -> RowKinds] : n \in 0..MaxRows} : TotalLen(rs, 1) <= MaxNodes}

\* what the caller keeps of a call that returned
NoCall == [op |-> "none", delivered |-> <<>>, count |-> 0, broke |-> FALSE]

ThisCall == [op |-> op, delivered |-> delivered, count |-> count,
             broke |-> brk.some]

Top == stack[Len(stack)]

SetTop(f) == [stack EXCEPT ![Len(stack)] = f]

Pop(seq) == SubSeq(seq, 1, Len(seq) - 1)

\* seq without the last of its entries equal to x, if there is one
RemoveLast(seq, x) ==
    IF \E k \in DOMAIN seq : seq[k] = x
    THEN LET k == CHOOSE a \in DOMAIN seq :
                    seq[a] = x /\ \A b \in DOMAIN seq : seq[b] = x => b <= a
         IN SubSeq(seq, 1, k - 1) \o SubSeq(seq, k + 1, Len(seq))
    ELSE seq

----------------------------------------------------------------------------
(* state machine *)

Init ==
    /\ rows \in Inputs
    /\ m = SolverNew(rows)
    /\ pc = "idle"
    /\ op = "none"
    /\ stack = <<>>
    /\ solution = <<>>
    /\ buffer = <<>>
    /\ delivered = <<>>
    /\ count = 0
    /\ ret = None
    /\ brk = None
    /\ pre = m
    /\ prev = NoCall
    /\ tainted = FALSE
    /\ covered = <<>>

\* entry of a public operation: fresh locals, then solve_inner
Enter(o) ==
    /\ pc = "idle"
    /\ op' = o
    /\ prev' = ThisCall
    /\ pre' = m
    /\ tainted' = (tainted \/ brk.some)
    /\ stack' = <<>>
    /\ solution' = <<>>
    /\ buffer' = <<>>
    /\ delivered' = <<>>
    /\ count' = 0
    /\ ret' = None
    /\ brk' = None
    /\ pc' = "enter"
    /\ UNCHANGED <<rows, m, covered>>

Solve == Enter("solve")

SolveCount == Enter("count")

\* solve_inner, lines 115-120 and 127: a column is chosen and covered
Choose ==
    /\ pc = "enter"
    /\ \E sel \in {SelectColumn(m)} :
          /\ sel.kind = "col"
          /\ m' = Cover(m, sel.col)
          /\ covered' = Append(covered, sel.col)
          /\ stack' = Append(stack, [col |-> sel.col,
                                     i |-> ColToIndex(sel.col),
                                     j |-> ColToIndex(sel.col)])
    /\ pc' = "loop"
    /\ UNCHANGED <<rows, op, solution, buffer, delivered, count, ret, brk,
                   pre, prev, tainted>>

\* solve_inner, lines 115-121: no column is linked to the root
NoColumn ==
    /\ pc = "enter"
    /\ SelectColumn(m).kind = "none"
    /\ pc' = "inspect"
    /\ UNCHANGED <<rows, m, op, stack, solution, buffer, delivered, count, ret,
                   brk, pre, prev, tainted, covered>>

\* the column selection indexes the matrix out of range
Panic ==
    /\ pc = "enter"
    /\ SelectColumn(m).kind = "panic"
    /\ pc' = "panic"
    /\ UNCHANGED <<rows, m, op, stack, solution, buffer, delivered, count, ret,
                   brk, pre, prev, tainted, covered>>

\* closure of solve_count: count += 1; Continue
InspectCount ==
    /\ pc = "inspect"
    /\ op = "count"
    /\ count' = count + 1
    /\ ret' = None
    /\ pc' = "return"
    /\ UNCHANGED <<rows, m, op, stack, solution, buffer, delivered, brk, pre,
                   prev, tainted, covered>>

\* mutant: the arms of the match on the verdict are swapped
InspectContinueSwapped ==
    /\ pc = "inspect"
    /\ op = "solve"
    /\ delivered' = Append(delivered, RowsOf(m, solution))
    /\ buffer' = RowsOf(m, solution)
    /\ \E v \in BreakVals : ret' = Some(v)
    /\ pc' = "return"
    /\ UNCHANGED <<rows, m, op, stack, solution, count, brk, pre, prev, tainted,
                   covered>>

\* closure of solve: the buffer is rebuilt and handed to the callback, which
\* answers Continue
InspectContinue ==
    /\ pc = "inspect"
    /\ op = "solve"
    /\ LET slice == BufferRebuilt(buffer, m, solution)
       IN /\ delivered' = Append(delivered, slice)
          /\ buffer' \in CallbackWrites(slice)
    /\ ret' = None
    /\ pc' = "return"
    /\ UNCHANGED <<rows, m, op, stack, solution, count, brk, pre, prev, tainted,
                   covered>>

\* closure of solve: the callback answers Break(v)
InspectBreak ==
    /\ pc = "inspect"
    /\ op = "solve"
    /\ LET slice == BufferRebuilt(buffer, m, solution)
       IN /\ delivered' = Append(delivered, slice)
          /\ buffer' \in CallbackWrites(slice)
    /\ \E v \in BreakVals :
          /\ ret' = Some(v)
          /\ brk' = Some([val |-> v, at |-> Len(delivered) + 1])
    /\ pc' = "return"
    /\ UNCHANGED <<rows, m, op, stack, solution, count, pre, prev, tainted,
                   covered>>

\* solve_inner, line 129: the down-walk yields the next row of the column
NextRow ==
    /\ pc = "loop"
    /\ LET i == WalkStep(m, "d", Top.i)
       IN /\ i # ColToIndex(Top.col)
          /\ solution' = Append(solution, i)
          /\ stack' = SetTop([Top EXCEPT !.i = i, !.j = i])
    /\ pc' = "coverrow"
    /\ UNCHANGED <<rows, m, op, buffer, delivered, count, ret, brk, pre, prev,
                   tainted, covered>>

\* solve_inner, lines 129 and 155-156: the down-walk is over
LoopEnd ==
    /\ pc = "loop"
    /\ WalkStep(m, "d", Top.i) = ColToIndex(Top.col)
    /\ m' = Uncover(m, Top.col)
    /\ covered' = RemoveLast(covered, Top.col)
    /\ stack' = Pop(stack)
    /\ ret' = None
    /\ pc' = "return"
    /\ UNCHANGED <<rows, op, solution, buffer, delivered, count, brk, pre, prev,
                   tainted>>

\* solve_inner, lines 132-138: cover the column of the next node of the row
CoverNext ==
    /\ pc = "coverrow"
    /\ LET j == WalkStep(m, "r", Top.j)
       IN /\ j # Top.i
          /\ m' = Cover(m, IndexToColumn(m, j))
          /\ covered' = Append(covered, IndexToColumn(m, j))
          /\ stack' = SetTop([Top EXCEPT !.j = j])
    /\ UNCHANGED <<rows, pc, op, solution, buffer, delivered, count, ret, brk,
                   pre, prev, tainted>>

\* solve_inner, line 140: the right-walk is over, recurse
Recurse ==
    /\ pc = "coverrow"
    /\ WalkStep(m, "r", Top.j) = Top.i
    /\ pc' = "enter"
    /\ UNCHANGED <<rows, m, op, stack, solution, buffer, delivered, count, ret,
                   brk, pre, prev, tainted, covered>>

\* mutant: the result of the inner call is dropped and the loop goes on
PropagateIgnored ==
    /\ pc = "return"
    /\ stack # <<>>
    /\ ret.some
    /\ stack' = SetTop([Top EXCEPT !.j = Top.i])
    /\ pc' = "uncoverrow"
    /\ UNCHANGED <<rows, m, op, solution, buffer, delivered, count, ret, brk,
                   pre, prev, tainted, covered>>

\* solve_inner, lines 140-142: the inner call returned Some(out)
Propagate ==
    /\ pc = "return"
    /\ stack # <<>>
    /\ ret.some
    /\ stack' = Pop(stack)
    /\ UNCHANGED <<rows, m, pc, op, solution, buffer, delivered, count, ret,
                   brk, pre, prev, tainted, covered>>

\* solve_inner, lines 140-144: the inner call returned None
Resume ==
    /\ pc = "return"
    /\ stack # <<>>
    /\ ~ret.some
    /\ stack' = SetTop([Top EXCEPT !.j = Top.i])
    /\ pc' = "uncoverrow"
    /\ UNCHANGED <<rows, m, op, solution, buffer, delivered, count, ret, brk,
                   pre, prev, tainted, covered>>

\* mutant: the columns of the row are uncovered in the order of their cover
UncoverNextRightwards ==
    /\ pc = "uncoverrow"
    /\ LET j == WalkStep(m, "r", Top.j)
       IN /\ j # Top.i
          /\ m' = Uncover(m, IndexToColumn(m, j))
          /\ covered' = RemoveLast(covered, IndexToColumn(m, j))
          /\ stack' = SetTop([Top EXCEPT !.j = j])
    /\ UNCHANGED <<rows, pc, op, solution, buffer, delivered, count, ret, brk,
                   pre, prev, tainted>>

\* solve_inner, lines 144-150: uncover the column of the next node leftwards
UncoverNext ==
    /\ pc = "uncoverrow"
    /\ LET j == WalkStep(m, "l", Top.j)
       IN /\ j # Top.i
          /\ m' = Uncover(m, IndexToColumn(m, j))
          /\ covered' = RemoveLast(covered, IndexToColumn(m, j))
          /\ stack' = SetTop([Top EXCEPT !.j = j])
    /\ UNCHANGED <<rows, pc, op, solution, buffer, delivered, count, ret, brk,
                   pre, prev, tainted>>

\* mutant: the down-walk is created anew after every row, so that it yields
\* the first row of the column again
PopRowRestartsWalk ==
    /\ pc = "uncoverrow"
    /\ WalkStep(m, "l", Top.j) = Top.i
    /\ solution' = Pop(solution)
    /\ stack' = SetTop([Top EXCEPT !.i = ColToIndex(Top.col),
                                   !.j = ColToIndex(Top.col)])
    /\ pc' = "loop"
    /\ UNCHANGED <<rows, m, op, buffer, delivered, count, ret, brk, pre, prev,
                   tainted, covered>>

\* solve_inner, line 152: the left-walk is over
PopRow ==
    /\ pc = "uncoverrow"
    /\ WalkStep(m, "l", Top.j) = Top.i
    /\ solution' = Pop(solution)
    /\ pc' = "loop"
    /\ UNCHANGED <<rows, m, op, stack, buffer, delivered, count, ret, brk, pre,
                   prev, tainted, covered>>

\* the outermost solve_inner returned: solve / solve_count return to the caller
Finish ==
    /\ pc = "return"
    /\ stack = <<>>
    /\ solution' = <<>>
    /\ buffer' = <<>>
    /\ pc' = "idle"
    /\ UNCHANGED <<rows, m, op, stack, delivered, count, ret, brk, pre, prev,
                   tainted, covered>>

Next ==
    \/ Solve
    \/ SolveCount
    \/ Choose
    \/ NoColumn
    \/ Panic
    \/ InspectCount
    \/ InspectContinue
    \/ InspectBreak
    \/ NextRow
    \/ LoopEnd
    \/ CoverNext
    \/ Recurse
    \/ Propagate
    \/ Resume
    \/ UncoverNext
    \/ PopRow
    \/ Finish

Spec == Init /\ [][Next]_vars

\* A call, once made, runs on: solve and solve_count are sequential code on
\* one thread, and the callback is taken to return.  Whether a call is made
\* at all is up to the caller.
Run ==
    \/ Choose
    \/ NoColumn
    \/ Panic
    \/ InspectCount
    \/ InspectContinue
    \/ InspectBreak
    \/ NextRow
    \/ LoopEnd
    \/ CoverNext
    \/ Recurse
    \/ Propagate
    \/ Resume
    \/ UncoverNext
    \/ PopRow
    \/ Finish

LiveSpec == Init /\ [][Next]_vars /\ WF_vars(Run)


----------------------------------------------------------------------------
(* Reference notions on sets, independent of the arena *)

\* row ordinals are 0-based, as handed to the callback
Ordinals(rs) == {k - 1 : k \in DOMAIN rs}

IdsOfRow(rs, o) == Range(rs[o + 1])

IsExactCover(rs, S) ==
    /\ S \subseteq Ordinals(rs)
    /\ \A a, b \in S : a # b => IdsOfRow(rs, a) \cap IdsOfRow(rs, b) = {}
    /\ UNION {IdsOfRow(rs, o) : o \in S} = AllIds(rs)

ExactCovers(rs) == {S \in SUBSET Ordinals(rs) : IsExactCover(rs, S)}

\* the exact covers that select no row without identifiers
NonEmptyRowCovers(rs) ==
    {S \in ExactCovers(rs) : \A o \in S : IdsOfRow(rs, o) # {}}

\* Algorithm X on sets.  cols: the identifiers not yet covered; live: the
\* ordinals of the rows disjoint from every chosen row; chosen: the ordinals
\* chosen so far, outermost first.
LiveSize(rs, live, c) == Cardinality({o \in live : c \in IdsOfRow(rs, o)})

\* minimum size, the smallest column among ties
BranchColumn(rs, cols, live) ==
    CHOOSE c \in cols :
        \A e \in cols :
            \/ LiveSize(rs, live, c) < LiveSize(rs, live, e)
            \/ LiveSize(rs, live, c) = LiveSize(rs, live, e) /\ c <= e

RECURSIVE AlgorithmX(_, _, _, _)
RECURSIVE TryRows(_, _, _, _, _, _)
AlgorithmX(rs, cols, live, chosen) ==
    IF cols = {} THEN <<chosen>>
    ELSE TryRows(rs, cols, live, chosen, BranchColumn(rs, cols, live), 0)

\* the rows of column c in input order, starting at ordinal o
TryRows(rs, cols, live, chosen, c, o) ==
    IF o >= Len(rs) THEN <<>>
    ELSE (IF o \in live /\ c \in IdsOfRow(rs, o)
          THEN AlgorithmX(rs, cols \ IdsOfRow(rs, o),
                          {p \in live : IdsOfRow(rs, p) \cap IdsOfRow(rs, o) = {}},
                          Append(chosen, o))
          ELSE <<>>)
         \o TryRows(rs, cols, live, chosen, c, o + 1)

Reference(rs) == AlgorithmX(rs, AllIds(rs), Ordinals(rs), <<>>)

IsPrefix(a, b) == Len(a) <= Len(b) /\ SubSeq(b, 1, Len(a)) = a

\* a call that has returned to its caller
Returned == pc = "idle" /\ op # "none"

\* a solve that ran to exhaustion under a continue-only callback
Exhausted == Returned /\ op = "solve" /\ ~brk.some

\* the callback has just returned to solve_inner: `delivered` changes only
\* in the step that leads here
Delivered == pc = "return" /\ op = "solve" /\ delivered # <<>>


----------------------------------------------------------------------------
(* Claims *)

\* C1: on a Solver no earlier search of which was cut short, every slice
\* delivered to the callback of solve is an exact cover of the input: its
\* rows are distinct, their identifier sets are pairwise disjoint and their
\* union is the set of all identifiers of the input.
C1_DeliveredAreExactCovers ==
    (Delivered /\ ~tainted) =>
        \A k \in DOMAIN delivered :
            /\ Injective(delivered[k])
            /\ IsExactCover(rows, Range(delivered[k]))

\* a search has delivered a cover made of two rows or more
C1_Witness ==
    /\ Delivered
    /\ ~tainted
    /\ \E k \in DOMAIN delivered : Len(delivered[k]) >= 2

SlicesAsSets == {Range(delivered[k]) : k \in DOMAIN delivered}

NoSetTwice ==
    \A a, b \in DOMAIN delivered :
        a # b => Range(delivered[a]) # Range(delivered[b])

C3_BreakHaltsDelivery ==
    brk.some =>
        /\ Len(delivered) = brk.val.at
        /\ Returned => ret = Some(brk.val.val)

\* solve has returned after a break at the first of several covers, deep in
\* the recursion
C3_Witness ==
    /\ Returned
    /\ ~tainted
    /\ brk.some
    /\ brk.val.at = 1
    /\ Len(delivered[1]) >= 2
    /\ Len(Reference(rows)) >= 2

\* the columns linked to the root, in the order of the right-walk
HeaderRing(mx) == WalkSeq(mx, "r", GLOBAL)

\* the size counter and the down-walk of each column
ColumnCycles(mx) ==
    [c \in 0..(Len(mx.headers) - 1) |->
        [size |-> Size(mx, c), down |-> WalkSeq(mx, "d", ColToIndex(c))]]

\* C4 (as stated): when solve returns after a break, the header ring, the
\* column cycles and the size counters are those of the arena before the
\* search, and a later exhaustive solve on the same Solver delivers what a
\* fresh Solver delivers.
C4_BreakRestoresArena ==
    /\ (Returned /\ brk.some) =>
            /\ HeaderRing(m) = HeaderRing(pre)
            /\ ColumnCycles(m) = ColumnCycles(pre)
    /\ (Exhausted /\ prev.broke) => delivered = Reference(rows)

\* C5 (as stated): solve_count returns the number of callback invocations of
\* an exhaustive solve on the same input, which is the number of exact
\* covers of the input.
C5_CountIsNumberOfExactCovers ==
    /\ (Returned /\ op = "count" /\ ~tainted) =>
            /\ count = Cardinality(ExactCovers(rows))
            /\ prev.op = "solve" => count = Len(prev.delivered)
    /\ (Exhausted /\ ~tainted /\ prev.op = "count") =>
            Len(delivered) = prev.count

\* C5 (amended): solve_count returns the number of callback invocations of
\* an exhaustive solve on the same input, which is the number of exact
\* covers of the input that select no row without identifiers.
C5_CountIsNumberOfNonEmptyRowCovers ==
    /\ (Returned /\ op = "count" /\ ~tainted) =>
            /\ count = Cardinality(NonEmptyRowCovers(rows))
            /\ prev.op = "solve" => count = Len(prev.delivered)
    /\ (Exhausted /\ ~tainted /\ prev.op = "count") =>
            Len(delivered) = prev.count

\* solve_count has returned two or more after an exhaustive solve on the
\* same Solver
C5_Witness ==
    /\ Returned
    /\ op = "count"
    /\ ~tainted
    /\ prev.op = "solve"
    /\ count >= 2

\* C6: the slices delivered by solve are, in order, those of Algorithm X on
\* sets with minimum-size column choice (smallest column among ties) and
\* rows tried in input order, each slice listing the ordinals of the chosen
\* rows outermost first: a prefix of that sequence while the search runs or
\* after a break, the whole sequence once the search is exhausted.
C6_DeliveredFollowsReference ==
    /\ (Delivered /\ ~tainted) => IsPrefix(delivered, Reference(rows))
    /\ (Exhausted /\ ~tainted) => delivered = Reference(rows)

\* an exhausted search with several covers, one of them listed in an order
\* that is not the ascending one
C6_Witness ==
    /\ Exhausted
    /\ ~tainted
    /\ Len(delivered) >= 2
    /\ \E k \in DOMAIN delivered : delivered[k] # SortSlice(delivered[k])

\* C7: a second exhaustive solve on the same Solver, after a first one that
\* ran to exhaustion, delivers the same sequence of slices.
C7_RerunSameSequence ==
    (Exhausted /\ ~tainted /\ prev.op = "solve") =>
        delivered = prev.delivered

\* the second of two exhaustive searches has delivered several covers
C7_Witness ==
    /\ Exhausted
    /\ ~tainted
    /\ prev.op = "solve"
    /\ Len(delivered) >= 2
    /\ \E k \in DOMAIN delivered : Len(delivered[k]) >= 2

\* C8: a solve whose callback answered continue at every delivery returns
\* none.
C8_ContinueOnlyReturnsNone ==
    Exhausted => ret = None

\* an exhausted search that delivered several covers
C8_Witness ==
    /\ Exhausted
    /\ ~tainted
    /\ Len(delivered) >= 2

Reverse(seq) == [k \in DOMAIN seq |-> seq[Len(seq) + 1 - k]]

\* every column cycle is closed, its up-walk mirrors its down-walk, its
\* nodes carry its column and its size counter is the length of its down-walk
ColumnCyclesHold(mx) ==
    \A c \in 0..(Len(mx.headers) - 1) :
        LET down == WalkSeq(mx, "d", ColToIndex(c))
        IN /\ DANGLING \notin Range(down)
           /\ WalkSeq(mx, "u", ColToIndex(c)) = Reverse(down)
           /\ \A k \in DOMAIN down : IndexToColumn(mx, down[k]) = c
           /\ Size(mx, c) = Len(down)

\* every row cycle is closed, its left-walk mirrors its right-walk and its
\* nodes carry its row
RowCyclesHold(mx) ==
    \A i \in Len(mx.headers)..(MatrixLen(mx) - 1) :
        LET right == WalkSeq(mx, "r", i)
        IN /\ DANGLING \notin Range(right)
           /\ WalkSeq(mx, "l", i) = Reverse(right)
           /\ \A k \in DOMAIN right :
                Lookup(mx, right[k]).row = Lookup(mx, i).row

\* C9: whenever the callback is invoked, no column is linked to the root
\* and the row cycles, the column cycles and the size counters are sound.
C9_CallbackSeesCoveredArena ==
    pc = "inspect" =>
        /\ HeaderRing(m) = <<>>
        /\ ColumnCyclesHold(m)
        /\ RowCyclesHold(m)

\* the callback is about to be invoked with two rows chosen
C9_Witness ==
    /\ pc = "inspect"
    /\ ~tainted
    /\ Len(solution) >= 2

NodesOfRow(mx, o) == {k \in DOMAIN mx.nodes : mx.nodes[k].row = o}

\* C10: a row without identifiers has no node in the arena and its ordinal
\* is in no delivered slice, and the other rows keep their input ordinals:
\* every row has as many nodes as it yields identifiers, and a delivered
\* slice names rows whose identifiers, looked up under the input ordinals,
\* make up all the identifiers of the input.
C10_EmptyRowsIgnored ==
    /\ pc = "idle" =>
            /\ \A o \in Ordinals(rows) :
                    Cardinality(NodesOfRow(m, o)) = Len(rows[o + 1])
            /\ \A k \in DOMAIN m.nodes : m.nodes[k].row \in Ordinals(rows)
    /\ Delivered =>
            \A k \in DOMAIN delivered :
                /\ \A o \in Range(delivered[k]) :
                        o \in Ordinals(rows) /\ IdsOfRow(rows, o) # {}
                /\ ~tainted =>
                        UNION {IdsOfRow(rows, o) : o \in Range(delivered[k])}
                            = AllIds(rows)

\* a delivered slice names a row that comes after a row without identifiers
C10_Witness ==
    /\ Delivered
    /\ ~tainted
    /\ \E k \in DOMAIN delivered :
            \E o \in Range(delivered[k]) :
                \E e \in Ordinals(rows) : e < o /\ IdsOfRow(rows, e) = {}

\* C11 (as stated): on an input without any identifier, solve and
\* solve_count run to their return without indexing the matrix outside its
\* vectors, and deliver exactly one slice, the empty one (solve_count
\* returns one).
C11_ZeroColumnsCompletes ==
    AllIds(rows) = {} =>
        /\ pc # "panic"
        /\ Exhausted => delivered = << <<>> >>
        /\ (Returned /\ op = "count") => count = 1

\* C12: the slice handed to the callback is rebuilt from the solution stack
\* at each delivery, whatever an earlier callback left in the buffer, and
\* the step in which the callback runs (and may reorder or overwrite the
\* slice) changes neither the solution stack nor the arena.
C12_SliceIsPrivateCopy ==
    [][(pc = "inspect" /\ op = "solve") =>
            /\ delivered' = Append(delivered, RowsOf(m, solution))
            /\ solution' = solution
            /\ m' = m]_vars

\* the callback is about to be handed a slice of two rows while the buffer
\* still holds what it made of the previous slice, which it changed
C12_Witness ==
    /\ pc = "inspect"
    /\ op = "solve"
    /\ ~tainted
    /\ delivered # <<>>
    /\ buffer # delivered[Len(delivered)]
    /\ Len(solution) >= 2

\* the columns linked to the root, when the right-walk from the root stays
\* in the arena
LinkedColumns(mx) ==
    IF DANGLING \in Range(HeaderRing(mx)) THEN {}
    ELSE {IndexToColumn(mx, i) : i \in Range(HeaderRing(mx))}

\* C13 (as stated): for every column linked to the root, cover followed by
\* uncover gives back the arena as it was: every pointer of every header
\* (the root included) and of every data node, and every size counter.
C13_CoverUncoverRestores ==
    \A c \in LinkedColumns(m) : Uncover(Cover(m, c), c) = m

\* the number of columns of the arena
ColumnCount(mx) == Len(mx.headers) - 1

\* an arena just built, before any search
Fresh == pc = "idle" /\ op = "none"

\* C14 (as stated): in a freshly built arena of N >= 1 columns the root has
\* r = header of column 1 and l = header of column N, the right-walk from
\* the root visits the headers 1..N, the left-walk visits N..1, every
\* header is the left neighbour of its right neighbour and the right
\* neighbour of its left neighbour, and the builder has left the l and r
\* of the headers as Matrix::new set them.
C14_HeaderRowIsRing ==
    (Fresh /\ ColumnCount(m) >= 1) =>
        LET N == ColumnCount(m)
        IN /\ Lookup(m, GLOBAL).r = ColToIndex(1)
           /\ Lookup(m, GLOBAL).l = ColToIndex(N)
           /\ WalkSeq(m, "r", GLOBAL) = [k \in 1..N |-> ColToIndex(k)]
           /\ WalkSeq(m, "l", GLOBAL) = [k \in 1..N |-> ColToIndex(N + 1 - k)]
           /\ \A h \in 0..N :
                /\ Lookup(m, Lookup(m, ColToIndex(h)).r).l = ColToIndex(h)
                /\ Lookup(m, Lookup(m, ColToIndex(h)).l).r = ColToIndex(h)
           /\ \A h \in 0..N :
                /\ Lookup(m, ColToIndex(h)).l = Lookup(MatrixNew(N), ColToIndex(h)).l
                /\ Lookup(m, ColToIndex(h)).r = Lookup(MatrixNew(N), ColToIndex(h)).r

\* C15: after build, at every entry to and return from solve_inner and at
\* every callback (and at every other point between two cover or uncover
\* calls), the down-walk from every column header comes back to the header
\* after as many data nodes as the header's size counter says.
C15_SizeIsColumnLength ==
    [](\A c \in 0..ColumnCount(m) :
            LET down == WalkSeq(m, "d", ColToIndex(c))
            IN /\ DANGLING \notin Range(down)
               /\ Size(m, c) = Len(down))

\* solve_inner is entered below the top level with a column still linked
\* whose size counter is positive and smaller than when the call started
C15_Witness ==
    /\ pc = "enter"
    /\ stack # <<>>
    /\ ~tainted
    /\ \E c \in LinkedColumns(m) : Size(m, c) >= 1 /\ Size(m, c) < Size(pre, c)

\* the indices of the data nodes
DataNodes(mx) == Len(mx.headers)..(MatrixLen(mx) - 1)

\* the walk from i along f comes back to i, without leaving the arena and
\* without passing a node twice
ClosedWalk(mx, f, i) ==
    /\ DANGLING \notin Range(WalkSeq(mx, f, i))
    /\ Injective(WalkSeq(mx, f, i))

\* C16: in a freshly built arena every data node lies on one row cycle and
\* one column cycle: its walks right, left, down and up each come back to it
\* without passing a node twice, the left-walk mirrors the right-walk and
\* the up-walk the down-walk, its u and d neighbours carry its column and
\* its l and r neighbours its row, and it is on the down-walk of exactly one
\* header; no header has a DANGLING u or d, and a header of size zero points
\* to itself.
C16_BuiltCyclesAreSound ==
    Fresh =>
        /\ \A i \in DataNodes(m) :
            /\ ClosedWalk(m, "r", i)
            /\ ClosedWalk(m, "d", i)
            /\ WalkSeq(m, "l", i) = Reverse(WalkSeq(m, "r", i))
            /\ WalkSeq(m, "u", i) = Reverse(WalkSeq(m, "d", i))
            /\ \A f \in {"u", "d"} :
                  Lookup(m, Lookup(m, i)[f]).col = Lookup(m, i).col
            /\ \A f \in {"l", "r"} :
                  /\ Lookup(m, i)[f] \in DataNodes(m)
                  /\ Lookup(m, Lookup(m, i)[f]).row = Lookup(m, i).row
            /\ \A k \in Range(WalkSeq(m, "r", i)) :
                  k \in DataNodes(m) /\ Lookup(m, k).col # Lookup(m, i).col
            /\ Cardinality({c \in 0..ColumnCount(m) :
                    i \in Range(WalkSeq(m, "d", ColToIndex(c)))}) = 1
        /\ \A c \in 0..ColumnCount(m) :
            /\ Lookup(m, ColToIndex(c)).u # DANGLING
            /\ Lookup(m, ColToIndex(c)).d # DANGLING
            /\ ClosedWalk(m, "d", ColToIndex(c))
            /\ Size(m, c) = 0 =>
                  /\ Lookup(m, ColToIndex(c)).u = ColToIndex(c)
                  /\ Lookup(m, ColToIndex(c)).d = ColToIndex(c)

\* a freshly built arena with a row of two nodes or more and a column of
\* two nodes or more
C16_Witness ==
    /\ Fresh
    /\ \E i \in DataNodes(m) : Len(WalkSeq(m, "r", i)) >= 1
    /\ \E c \in 1..ColumnCount(m) : Size(m, c) >= 2

\* C17: between any two cover or uncover calls, a column header other than
\* the root is reached by the right-walk from the root if and only if no
\* cover of its column is pending its uncover.
C17_LinkedIffNotCovered ==
    [](\A c \in 1..ColumnCount(m) :
            (ColToIndex(c) \in Range(HeaderRing(m)))
                <=> (c \notin Range(covered)))

\* inside a search, after a row of two nodes or more was tried and undone:
\* the branching column is covered, and the columns covered for the row and
\* uncovered again are linked, next to a third column
C17_Witness ==
    /\ pc = "loop"
    /\ ~tainted
    /\ Len(covered) = 1
    /\ Len(HeaderRing(m)) >= 2
    /\ Top.i # ColToIndex(Top.col)
    /\ Len(WalkSeq(m, "r", Top.i)) >= 1

\* a detachment or reattachment: the axis ("v" or "h") and the node
Detachments(mx) == [axis : {"v", "h"}, i : 0..(MatrixLen(mx) - 1)]

DetachAt(mx, o) ==
    IF o.axis = "v" THEN DetachVertical(mx, o.i) ELSE DetachHorizontal(mx, o.i)

ReattachAt(mx, o) ==
    IF o.axis = "v" THEN ReattachVertical(mx, o.i)
                    ELSE ReattachHorizontal(mx, o.i)

\* node o.i is linked on the axis of o: both its neighbours point back to it
Linked(mx, o) ==
    LET fa == IF o.axis = "v" THEN "u" ELSE "l"
        fb == IF o.axis = "v" THEN "d" ELSE "r"
        a  == Lookup(mx, o.i)[fa]
        b  == Lookup(mx, o.i)[fb]
    IN /\ InArena(mx, a)
       /\ InArena(mx, b)
       /\ Lookup(mx, a)[fb] = o.i
       /\ Lookup(mx, b)[fa] = o.i

\* how long the sequences of detachments tried are
MaxDetachments == 2

\* Every sequence of up to depth detachments, each of a node linked when it
\* is detached, is undone by its reattachments in last-in-first-out order:
\* the newest detachment is undone in the arena the others left, and so on
\* down to the first.
RECURSIVE LifoRestores(_, _)
LifoRestores(mx, depth) ==
    \/ depth = 0
    \/ \A o \in {d \in Detachments(mx) : Linked(mx, d)} :
            /\ LifoRestores(DetachAt(mx, o), depth - 1)
            /\ ReattachAt(DetachAt(mx, o), o) = mx

\* C18: (1) in the arena as built and as the first call on it left it,
\* every sequence of detachments of linked nodes is undone by the
\* reattachments in last-in-first-out order; (2) for every column linked to
\* the root, the reattachments of uncover are the detachments of cover in
\* reverse order; (3) every step that changes the arena either covers a
\* column, which becomes the newest pending cover, or uncovers the column of
\* the newest pending cover.
C18_UndoneInLifoOrder ==
    /\ []((Fresh \/ (Returned /\ prev.op = "none")) =>
                LifoRestores(m, MaxDetachments))
    /\ [](\A c \in LinkedColumns(m) :
            UncoverLog(Cover(m, c), c) = Reverse(CoverLog(m, c)))
    /\ [][(m' # m \/ covered' # covered) =>
            \/ \E c \in LinkedColumns(m) :
                    /\ m' = Cover(m, c)
                    /\ covered' = Append(covered, c)
            \/ /\ covered # <<>>
               /\ m' = Uncover(m, covered[Len(covered)])
               /\ covered' = Pop(covered)]_vars

\* the last column covered for a row of three nodes has just been uncovered,
\* the one covered before it is still pending
C18_Witness ==
    /\ pc = "uncoverrow"
    /\ ~tainted
    /\ Len(WalkSeq(m, "r", Top.i)) = 2
    /\ Top.j = Lookup(m, Top.i).l
    /\ covered[Len(covered)] = IndexToColumn(m, Lookup(m, Top.i).r)

\* the position of column c in the right-walk from the root
RingPosition(mx, c) ==
    CHOOSE k \in DOMAIN HeaderRing(mx) : HeaderRing(mx)[k] = ColToIndex(c)

\* C19: at every entry to solve_inner with a column linked to the root, the
\* column chosen for branching is linked, no linked column has a smaller
\* size, and among the linked columns of that size it comes first in the
\* right-walk from the root and has the smallest ColumnId.
C19_FirstMinimumChosen ==
    (pc = "enter" /\ LinkedColumns(m) # {}) =>
        LET sel == SelectColumn(m)
        IN /\ sel.kind = "col"
           /\ sel.col \in LinkedColumns(m)
           /\ \A e \in LinkedColumns(m) :
                /\ Size(m, sel.col) <= Size(m, e)
                /\ Size(m, e) = Size(m, sel.col) =>
                      /\ RingPosition(m, sel.col) <= RingPosition(m, e)
                      /\ sel.col <= e

\* solve_inner is entered with two linked columns of the minimum size and a
\* linked column of a larger size before them in the walk
C19_Witness ==
    /\ pc = "enter"
    /\ ~tainted
    /\ LinkedColumns(m) # {}
    /\ LET c == SelectColumn(m).col
       IN /\ \E e \in LinkedColumns(m) : e # c /\ Size(m, e) = Size(m, c)
          /\ \E e \in LinkedColumns(m) : e < c /\ Size(m, e) > Size(m, c)

Fields == {"row", "col", "u", "d", "l", "r"}

\* the two arenas differ at most in field fa of node a and field fb of node b
DifferOnlyAt(mx, my, a, fa, b, fb) ==
    /\ Len(my.headers) = Len(mx.headers)
    /\ Len(my.nodes) = Len(mx.nodes)
    /\ \A c \in 0..ColumnCount(mx) : Size(my, c) = Size(mx, c)
    /\ \A k \in 0..(MatrixLen(mx) - 1) \ {a, b} : Lookup(my, k) = Lookup(mx, k)
    /\ \A f \in Fields :
         /\ Lookup(my, a)[f] # Lookup(mx, a)[f] =>
                f = fa \/ (a = b /\ f = fb)
         /\ Lookup(my, b)[f] # Lookup(mx, b)[f] =>
                f = fb \/ (a = b /\ f = fa)

\* the detachment o of the arena writes the d (r) of the up (left) neighbour
\* of its node and the u (l) of the down (right) neighbour, and nothing else
DetachWritesTwoFields(mx, o) ==
    LET fa == IF o.axis = "v" THEN "u" ELSE "l"
        fb == IF o.axis = "v" THEN "d" ELSE "r"
        a  == Lookup(mx, o.i)[fa]
        b  == Lookup(mx, o.i)[fb]
    IN (InArena(mx, a) /\ InArena(mx, b)) =>
            /\ DifferOnlyAt(mx, DetachAt(mx, o), a, fb, b, fa)
            /\ Lookup(DetachAt(mx, o), a)[fb] = b
            /\ Lookup(DetachAt(mx, o), b)[fa] = a

\* the row and col tags of the headers and of the data nodes, in arena order
Tags(mx) ==
    [k \in 0..(MatrixLen(mx) - 1) |->
        [row |-> Lookup(mx, k).row, col |-> Lookup(mx, k).col]]

\* the tags the nodes are created with: Matrix::new gives header c the tags
\* (0, c); the builder pushes, row after row, one node per identifier with
\* the row's ordinal and the identifier's dense column
RECURSIVE PushedTags(_, _)
PushedTags(rs, k) ==
    IF k > Len(rs) THEN <<>>
    ELSE [a \in DOMAIN rs[k] |->
            [row |-> k - 1, col |-> SparseToDense(rs)[rs[k][a]]]]
         \o PushedTags(rs, k + 1)

CreatedTags(rs) ==
    LET hs == [c \in 1..(Cardinality(AllIds(rs)) + 1) |->
                    [row |-> 0, col |-> c - 1]]
        all == hs \o PushedTags(rs, 1)
    IN [k \in 0..(Len(all) - 1) |-> all[k + 1]]

\* C20: in the arena as built and at every entry to solve_inner during the
\* first call on a Solver, detaching any node on either axis writes only the
\* d (r) field of its up (left) neighbour and the u (l) field of its down
\* (right) neighbour: the node's own pointers, every other pointer, every
\* tag and every size counter stay; and every node leaves the builder with
\* the row and col tags it was created with, which no step of a search
\* changes.
C20_DetachFrameAndTags ==
    /\ []((Fresh \/ (pc = "enter" /\ prev.op = "none")) =>
                \A o \in Detachments(m) : DetachWritesTwoFields(m, o))
    /\ [](Fresh => Tags(m) = CreatedTags(rows))
    /\ [][m' # m => Tags(m') = Tags(m)]_vars

\* solve_inner is entered after two rows were chosen, with a data node
\* detached from its column that still points to its former neighbours
C20_Witness ==
    /\ pc = "enter"
    /\ prev.op = "none"
    /\ ~tainted
    /\ Len(solution) >= 2
    /\ \E i \in DataNodes(m) :
          /\ ~Linked(m, [axis |-> "v", i |-> i])
          /\ InArena(m, Lookup(m, i).u)
          /\ InArena(m, Lookup(m, i).d)

\* the cycle of start along field f, read off the pointers: the nodes met
\* from start until start is met again, start left out
RECURSIVE CycleFrom(_, _, _, _, _)
CycleFrom(mx, f, start, at, fuel) ==
    LET n == Lookup(mx, at)[f]
    IN IF n = start \/ fuel = 0 THEN <<>>
       ELSE <<n>> \o CycleFrom(mx, f, start, n, fuel - 1)

Cycle(mx, f, start) == CycleFrom(mx, f, start, start, MatrixLen(mx))

\* how many nodes of its cycle a walker from start has yielded when its
\* state is at, a node of the cycle or start itself
Yielded(mx, f, start, at) ==
    IF at = start THEN 0
    ELSE CHOOSE k \in DOMAIN Cycle(mx, f, start) : Cycle(mx, f, start)[k] = at

\* the walk from start has yielded all of its cycle
WalkOver(mx, f, start, at) ==
    /\ at \in {start} \cup Range(Cycle(mx, f, start))
    /\ Yielded(mx, f, start, at) = Len(Cycle(mx, f, start))

\* the walker moved from at to to by yielding the next node of the cycle
WalkAdvanced(mx, f, start, at, to) ==
    /\ to # start
    /\ to \in Range(Cycle(mx, f, start))
    /\ at \in {start} \cup Range(Cycle(mx, f, start))
    /\ Yielded(mx, f, start, to) = Yielded(mx, f, start, at) + 1

RECURSIVE Flatten(_)
Flatten(seqs) ==
    IF seqs = <<>> THEN <<>> ELSE Head(seqs) \o Flatten(Tail(seqs))

\* the vertical calls on the nodes that the walks along fcol from col and,
\* for each node i met, along frow from i meet in the arena as it is
CallsOnCycles(mx, col, fcol, frow) ==
    Flatten([a \in DOMAIN Cycle(mx, fcol, col) |->
                [b \in DOMAIN Cycle(mx, frow, Cycle(mx, fcol, col)[a]) |->
                    [axis |-> "v",
                     i |-> Cycle(mx, frow, Cycle(mx, fcol, col)[a])[b]]]])

\* a step of a loop of solve_inner moves its walker by one node of the cycle
\* it walks, and leaves the loop only when the cycle is exhausted
LoopWalksStep ==
    /\ (pc = "loop" /\ pc' = "coverrow") =>
            WalkAdvanced(m, "d", ColToIndex(Top.col), Top.i, Top'.i)
    /\ (pc = "loop" /\ pc' = "return") =>
            WalkOver(m, "d", ColToIndex(Top.col), Top.i)
    /\ (pc = "coverrow" /\ pc' = "coverrow") =>
            WalkAdvanced(m, "r", Top.i, Top.j, Top'.j)
    /\ (pc = "coverrow" /\ pc' = "enter") =>
            WalkOver(m, "r", Top.i, Top.j)
    /\ (pc = "uncoverrow" /\ pc' = "uncoverrow") =>
            WalkAdvanced(m, "l", Top.i, Top.j, Top'.j)
    /\ (pc = "uncoverrow" /\ pc' = "loop") =>
            WalkOver(m, "l", Top.i, Top.j)

\* a step leaves as they are the column cycle that each frame walks down and
\* the row cycle of the row that each frame has chosen
CyclesKeptStep ==
    \A k \in DOMAIN stack \cap DOMAIN stack' :
        /\ stack'[k].col = stack[k].col =>
              Cycle(m', "d", ColToIndex(stack[k].col))
                  = Cycle(m, "d", ColToIndex(stack[k].col))
        /\ (stack'[k].i = stack[k].i /\ stack[k].i # ColToIndex(stack[k].col)) =>
              /\ Cycle(m', "r", stack[k].i) = Cycle(m, "r", stack[k].i)
              /\ Cycle(m', "l", stack[k].i) = Cycle(m, "l", stack[k].i)

\* C21: (1) every step of the loops of solve_inner yields the next node of
\* the cycle its walk started on, never the start, and a loop is left only
\* when its walk has come back to the start; (2) the covers and uncovers
\* made in between change neither the column cycle a frame walks down nor
\* the row cycle of the row it has chosen; (3) for every column linked to
\* the root, cover calls detach_vertical on exactly the nodes that the
\* down-walk of the column and the right-walks of its rows meet in the arena
\* as it is before the cover, in that order, and uncover calls
\* reattach_vertical on exactly those of the up-walk and the left-walks.
C21_WalksFollowTheirCycle ==
    /\ [][LoopWalksStep /\ CyclesKeptStep]_vars
    /\ [](\A c \in LinkedColumns(m) :
            /\ CoverLog(m, c)
                  = <<[axis |-> "h", i |-> ColToIndex(c)]>>
                    \o CallsOnCycles(m, ColToIndex(c), "d", "r")
            /\ UncoverLog(Cover(m, c), c)
                  = CallsOnCycles(Cover(m, c), ColToIndex(c), "u", "l")
                    \o <<[axis |-> "h", i |-> ColToIndex(c)]>>)

\* the down-walk of a column of two rows has yielded its second row, whose
\* other column has just been covered by the right-walk of the row, after
\* the first row was tried and undone
C21_Witness ==
    /\ pc = "coverrow"
    /\ ~tainted
    /\ Len(Cycle(m, "d", ColToIndex(Top.col))) >= 2
    /\ Yielded(m, "d", ColToIndex(Top.col), Top.i) = 2
    /\ Top.j # Top.i

\* C22: in every state every size counter is a count of nodes of the arena,
\* not a wrapped value, and a cover of any column linked to the root
\* decrements a counter only when it is at least 1.
C22_SizeNeverWraps ==
    [](/\ \A c \in 0..ColumnCount(m) :
            Size(m, c) >= 0 /\ Size(m, c) <= Len(m.nodes)
       /\ \A c \in LinkedColumns(m) :
            \A k \in DOMAIN CoverSizes(m, c) : CoverSizes(m, c)[k] >= 1)

\* solve_inner is entered below the top level with a linked column whose
\* counter the covers have brought down to zero
C22_Witness ==
    /\ pc = "enter"
    /\ stack # <<>>
    /\ ~tainted
    /\ \E c \in LinkedColumns(m) : Size(m, c) = 0 /\ Size(pre, c) >= 1

\* C23: the frames of solve_inner that have chosen a column hold pairwise
\* distinct columns, each of them covered and unlinked from the root, and
\* each frame has at most one row on the solution stack (the rows stay
\* there while a break unwinds the frames): neither the nesting of
\* solve_inner nor the solution stack is deeper than the number of columns.
C23_DepthBoundedByColumns ==
    [](/\ \A a, b \in DOMAIN stack : a # b => stack[a].col # stack[b].col
       /\ \A a \in DOMAIN stack :
             /\ stack[a].col \in 1..ColumnCount(m)
             /\ stack[a].col \in Range(covered)
             /\ stack[a].col \notin LinkedColumns(m)
       /\ Len(stack) <= ColumnCount(m)
       /\ (~ret.some => Len(solution) <= Len(stack))
       /\ Len(solution) <= ColumnCount(m))

\* the callback is about to be invoked with as many rows chosen as there
\* are columns, two or more
C23_Witness ==
    /\ pc = "inspect"
    /\ ~tainted
    /\ ColumnCount(m) >= 2
    /\ Len(solution) = ColumnCount(m)

\* C24: on an input with at least one column, a call of solve or
\* solve_count that has started returns to its caller, whatever the
\* callback answers at each delivery.
C24_SearchTerminates ==
    (AllIds(rows) # {} /\ pc # "idle") ~> (pc = "idle")

\* an exhaustive solve that tried and undid rows and delivered several
\* covers has returned
C24_Witness ==
    /\ Exhausted
    /\ ~tainted
    /\ Len(delivered) >= 2
    /\ ColumnCount(m) >= 2
    /\ Len(m.nodes) >= 4

\* the number of identifiers the rows before the k-th yield
NodesBefore(rs, k) == TotalLen(rs, 1) - TotalLen(rs, k)

\* the number of distinct identifiers of the input that are smaller than id
SmallerIds(rs, id) == Cardinality({x \in AllIds(rs) : x < id})

\* C25: the builder's dense_to_sparse lists the distinct identifiers of the
\* rows in ascending order, each once; sparse_to_dense maps them one-to-one
\* and in their order onto 1..column_count, which is the number of columns
\* of the arena, so that 0 stays the root's; and the node pushed for the a-th
\* identifier of the k-th row carries that identifier's dense column and the
\* ordinal k - 1 of its row.
C25_DenseColumnsAndTags ==
    Fresh =>
        LET d2s == DenseToSparse(rows)
            s2d == SparseToDense(rows)
            N   == ColumnCount(m)
        IN /\ Range(d2s) = AllIds(rows)
           /\ \A a, b \in DOMAIN d2s : a < b => d2s[a] < d2s[b]
           /\ N = Cardinality(AllIds(rows))
           /\ DOMAIN s2d = AllIds(rows)
           /\ {s2d[x] : x \in AllIds(rows)} = 1..N
           /\ \A x, y \in AllIds(rows) : x < y => s2d[x] < s2d[y]
           /\ \A x \in AllIds(rows) : d2s[s2d[x]] = x
           /\ MatrixLen(m) = N + 1 + TotalLen(rows, 1)
           /\ \A k \in DOMAIN rows : \A a \in DOMAIN rows[k] :
                 LET node == Lookup(m, N + NodesBefore(rows, k) + a)
                 IN /\ node.col = s2d[rows[k][a]]
                    /\ node.col = 1 + SmallerIds(rows, rows[k][a])
                    /\ node.row = k - 1

C25_Witness ==
    /\ Fresh
    /\ ColumnCount(m) >= 2
    /\ \E k \in DOMAIN rows : Len(rows[k]) >= 2 /\ rows[k][1] > rows[k][2]
    /\ \E k, q \in DOMAIN rows : k < q /\ Range(rows[k]) \cap Range(rows[q]) # {}
    /\ \E k \in DOMAIN rows : rows[k] = <<>> /\ k < Len(rows)

====
